---- MODULE Spec2Model ----
(***************************************************************************)
(* Model of mcp.py (UnifiedLawMCP): the port selector get_free_port, the   *)
(* response resolver run_llm_or_mock, the nine prompt-templated tools and  *)
(* the web_search tool.                                                    *)
(*                                                                         *)
(* A Python str is modelled as a sequence of tokens (TLA+ strings); a      *)
(* literal of the source is cut into a few tokens, a caller-supplied text  *)
(* is a sequence over Alphabet.  Concatenation is \o, "s in t" is Contains.*)
(***************************************************************************)
EXTENDS Integers, Sequences, FiniteSets, TLC

\* ------------------------------------------------------------------ bounds
\* ports are 0 .. MaxPort-1; start_port and end_port range over 0 .. MaxPort
MaxPort == 3
\* longest caller-supplied text (facts, case_type, query), in tokens
MaxLen == 2
\* longest result list the search provider answers with
MaxResults == 2
\* number of tool invocations the framework may have in flight together
NumCalls == 2

\* ------------------------------------------------------------- strings
Alphabet == {"RTI request", "want copy of file X"}

SeqsUpTo(S, n) == UNION {[1..k -> S] : k \in 0..n}

Texts == SeqsUpTo(Alphabet, MaxLen)

\* Python's "t in s" on str
Contains(s, t) ==
    \E k \in 0..(Len(s) - Len(t)) : SubSeq(s, k + 1, k + Len(t)) = t

StartsWith(s, t) == Len(t) <= Len(s) /\ SubSeq(s, 1, Len(t)) = t

RECURSIVE CountToken(_, _)
CountToken(s, tok) ==
    IF s = <<>> THEN 0
    ELSE (IF Head(s) = tok THEN 1 ELSE 0) + CountToken(Tail(s), tok)

\* ---------------------------------------------------------- exceptions
\* the part of Python's exception hierarchy the program meets
ParentClass(c) ==
    CASE c = "Exception" -> "BaseException"
      [] c = "OSError" -> "Exception"
      [] c = "RuntimeError" -> "Exception"
      [] c = "ValueError" -> "Exception"
      [] c = "ConnectionError" -> "OSError"
      [] c = "PermissionError" -> "OSError"
      [] c = "APIStatusError" -> "Exception"
      [] OTHER -> "BaseException"

RECURSIVE IsInstance(_, _)
IsInstance(c, cls) ==
    \/ c = cls
    \/ c # "BaseException" /\ IsInstance(ParentClass(c), cls)

\* ================================================================
\* State
\* ================================================================
\* the port selector and the ports of the host
VARIABLES
    occupied,     \* ports bound by other processes
    pcPort,       \* position of get_free_port
    start_port, end_port,
    port,         \* the loop variable
    sock,         \* ports bound by the socket get_free_port holds open
    ret,          \* <<>> (nothing returned) or <<p>>
    errType, errMsg,   \* the exception that left get_free_port
    before, after      \* history: all bound ports when the call began / ended

portVars == <<occupied, pcPort, start_port, end_port, port, sock, ret,
              errType, errMsg, before, after>>

\* module configuration, set once while the module is imported
VARIABLES
    GROQ_API_KEY,   \* os.getenv("GROQ_API_KEY", "")
    llm,            \* "None" or "ChatGroq"
    HAS_DDG,        \* whether duckduckgo_search could be imported
    startup         \* history: the configuration as the import left it

configVars == <<GROQ_API_KEY, llm, HAS_DDG, startup>>

\* tool invocations, dispatched by the FastMCP framework
VARIABLES
    pc,          \* per invocation: "idle", "invoking", "searching",
                 \*   "returned" (a value went back), "raised" (an exception did)
    tool,        \* the tool invoked
    case_type, facts, query,   \* its arguments
    prompt,      \* the local variable prompt
    answer,      \* what the external provider answered to this invocation
    result,      \* the value returned to the caller
    exc,         \* the exception class that reached the caller, or "None"
    invokes,     \* calls of llm.invoke made by the invocation
    searches     \* calls of DDGS().text made by the invocation

callVars == <<pc, tool, case_type, facts, query, prompt, answer, result, exc,
              invokes, searches>>

vars == <<portVars, configVars, callVars>>

\* ================================================================
\* Port selector
\* ================================================================

Ports == 0..(MaxPort - 1)

NoFreePortsMessage == <<"No free ports available">>

\* the class named by the except clause of get_free_port
BindExcept == "OSError"

\* s.bind(("127.0.0.1", p)): the exception it raises, "None" when it binds
BindRaises(p) == IF p \in occupied THEN "OSError" ELSE "None"

\* mutant: the scan skips every other port
RangeNextSkip(p) == p + 2

\* range(start_port, end_port) steps by one
RangeNext(p) == p + 1

InitPort ==
    /\ occupied \in SUBSET Ports
    /\ pcPort = "idle"
    /\ start_port = 0 /\ end_port = 0 /\ port = 0
    /\ sock = {}
    /\ ret = <<>>
    /\ errType = "None" /\ errMsg = <<>>
    /\ before = {} /\ after = {}

\* get_free_port(s, e) is entered
GfpCall(s, e) ==
    /\ pcPort = "idle"
    /\ start_port' = s /\ end_port' = e
    /\ port' = s
    /\ before' = occupied \cup sock
    /\ pcPort' = "for"
    /\ UNCHANGED <<occupied, sock, ret, errType, errMsg, after>>
    /\ UNCHANGED <<configVars, callVars>>

\* mutant: an exhausted scan falls back to start_port instead of raising
GfpForFallback ==
    /\ pcPort = "for"
    /\ IF port < end_port
       THEN /\ pcPort' = "bind"
            /\ UNCHANGED <<ret, after>>
       ELSE /\ pcPort' = "returned"
            /\ ret' = <<start_port>>
            /\ after' = occupied \cup sock
    /\ UNCHANGED <<occupied, start_port, end_port, port, sock, errType, errMsg,
                   before>>
    /\ UNCHANGED <<configVars, callVars>>

\* for port in range(start_port, end_port): next iteration opens a socket,
\* or the loop is over and RuntimeError is raised
GfpFor ==
    /\ pcPort = "for"
    /\ IF port < end_port
       THEN /\ pcPort' = "bind"
            /\ UNCHANGED <<errType, errMsg, after>>
       ELSE /\ pcPort' = "raised"
            /\ errType' = "RuntimeError"
            /\ errMsg' = NoFreePortsMessage
            /\ after' = occupied \cup sock
    /\ UNCHANGED <<occupied, start_port, end_port, port, sock, ret, before>>
    /\ UNCHANGED <<configVars, callVars>>

\* s.bind(...) inside the try
GfpBind ==
    /\ pcPort = "bind"
    /\ IF BindRaises(port) = "None"
       THEN /\ sock' = {port}
            /\ pcPort' = "return"
            /\ UNCHANGED <<errType, errMsg, after>>
       ELSE IF IsInstance(BindRaises(port), BindExcept)
       THEN /\ pcPort' = "continue"
            /\ UNCHANGED <<sock, errType, errMsg, after>>
       ELSE /\ pcPort' = "raised"
            /\ errType' = BindRaises(port)
            /\ errMsg' = <<>>
            /\ after' = occupied \cup sock
            /\ UNCHANGED sock
    /\ UNCHANGED <<occupied, start_port, end_port, port, ret, before>>
    /\ UNCHANGED <<configVars, callVars>>

\* mutant: no with block around the socket, so the returned port stays bound
GfpWithExitLeak ==
    /\ pcPort \in {"return", "continue"}
    /\ IF pcPort = "return"
       THEN /\ ret' = <<port>>
            /\ pcPort' = "returned"
            /\ after' = occupied \cup sock
            /\ UNCHANGED <<port, sock>>
       ELSE /\ port' = RangeNext(port)
            /\ pcPort' = "for"
            /\ sock' = {}
            /\ UNCHANGED <<ret, after>>
    /\ UNCHANGED <<occupied, start_port, end_port, errType, errMsg, before>>
    /\ UNCHANGED <<configVars, callVars>>

\* leaving the with block closes the socket, on return and on continue
GfpWithExit ==
    /\ pcPort \in {"return", "continue"}
    /\ sock' = {}
    /\ IF pcPort = "return"
       THEN /\ ret' = <<port>>
            /\ pcPort' = "returned"
            /\ after' = occupied \cup sock'
            /\ UNCHANGED port
       ELSE /\ port' = RangeNext(port)
            /\ pcPort' = "for"
            /\ UNCHANGED <<ret, after>>
    /\ UNCHANGED <<occupied, start_port, end_port, errType, errMsg, before>>
    /\ UNCHANGED <<configVars, callVars>>

\* another process binds or releases a port while get_free_port is not running
OtherBind(p) ==
    /\ pcPort \in {"idle", "returned", "raised"}
    /\ p \notin occupied \cup sock
    /\ occupied' = occupied \cup {p}
    /\ UNCHANGED <<pcPort, start_port, end_port, port, sock, ret,
                   errType, errMsg, before, after>>
    /\ UNCHANGED <<configVars, callVars>>

OtherRelease(p) ==
    /\ pcPort \in {"idle", "returned", "raised"}
    /\ p \in occupied
    /\ occupied' = occupied \ {p}
    /\ UNCHANGED <<pcPort, start_port, end_port, port, sock, ret,
                   errType, errMsg, before, after>>
    /\ UNCHANGED <<configVars, callVars>>

\* ================================================================
\* Module configuration, set once while the module is imported
\* ================================================================

Config == [key |-> GROQ_API_KEY, llm |-> llm, ddg |-> HAS_DDG]

\* the import of langchain_groq or the construction of ChatGroq may fail
\* (llm = None) or succeed, whatever the key; likewise duckduckgo_search
InitConfig ==
    /\ GROQ_API_KEY \in {<<>>, <<"gsk">>}
    /\ llm \in {"None", "ChatGroq"}
    /\ HAS_DDG \in BOOLEAN
    /\ startup = Config

\* ================================================================
\* Prompt templates
\* ================================================================
rti_info_prompt(f) ==
    <<"You are an expert on Indian RTI (Right to Information) process.\n\n",
      "FACTS: ">> \o f \o
    <<"\n\n",
      "List relevant Acts/sections, the procedure to file an RTI (portals/forms/fees), ",
      "and provide a short sample RTI application template with placeholders.">>

divorce_info_prompt(f) ==
    <<"You are an expert on family law & divorce in India.\n\n",
      "FACTS: ">> \o f \o
    <<"\n\n",
      "List likely legal provisions/sections, procedural steps (mediation, court filings), ",
      "documents required, timelines, and provide a short sample petition template.">>

consumer_complaint_info_prompt(f) ==
    <<"You are an expert on consumer protection in India.\n\n",
      "FACTS: ">> \o f \o
    <<"\n\n",
      "List relevant portions of the Consumer Protection Act, how to approach consumer forums, ",
      "documents to attach, approximate fees, and sample complaint structure.">>

property_dispute_info_prompt(f) ==
    <<"You are an expert on property law in India.\n\n",
      "FACTS: ">> \o f \o
    <<"\n\n",
      "Identify relevant statutes/sections, likely remedies (civil suit, injunction, possession), ",
      "documents to gather, and next-step recommendations.">>

workplace_issue_info_prompt(f) ==
    <<"You are an expert on Indian labour & employment law.\n\n",
      "FACTS: ">> \o f \o
    <<"\n\n",
      "Identify applicable statutes/sections (payment, termination, POSH if applicable), ",
      "procedural steps, and an action plan (letters, conciliation, complaints).">>

family_law_info_prompt(f) ==
    <<"You are an expert on family law in India (maintenance, custody, adoption, guardianship).\n\n",
      "FACTS: ">> \o f \o
    <<"\n\n",
      "List relevant legal provisions, likely steps, documents, and suggested next actions.">>

cybercrime_info_prompt(f) ==
    <<"You are an expert on cybercrime law in India (IT Act, IPC supplements).\n\n",
      "FACTS: ">> \o f \o
    <<"\n\n",
      "List likely offences and sections, steps for preservation of evidence, how to file a police complaint/FIR, ",
      "and online portals to report cybercrime.">>

guide_steps_prompt(ct) ==
    <<"You are a legal expert in Indian law. Provide a clear, step-by-step practical guide for a '">>
    \o ct \o
    <<"' case. ",
      "Include relevant Acts, Sections, and Rules (e.g., RTI Act, 2005; Consumer Protection Act, 2019; Hindu Marriage Act, 1955) ",
      "and explain how it's relevant to the case. Also mention required documents, online portals, fees, and timelines.">>

\* mutant: the letter template forgets the case type
draft_letter_prompt_nocase(ct, f) ==
    <<"Draft a formal, editable legal letter based on these facts:\n\n">>
    \o f \o
    <<"\n\n",
      "Include placeholders like [Name], [Date], [Recipient]. ",
      "Ensure the draft cites at least one relevant law or section (e.g., Section 6(1) of the RTI Act, 2005).">>

draft_letter_prompt(ct, f) ==
    <<"Draft a formal, editable legal letter for '">> \o ct \o
    <<"' based on these facts:\n\n">> \o f \o
    <<"\n\n",
      "Include placeholders like [Name], [Date], [Recipient]. ",
      "Ensure the draft cites at least one relevant law or section (e.g., Section 6(1) of the RTI Act, 2005).">>

DomainTools == {"rti_info", "divorce_info", "consumer_complaint_info",
                "property_dispute_info", "workplace_issue_info",
                "family_law_info", "cybercrime_info"}

PromptTools == DomainTools \cup {"guide_steps", "draft_letter"}

Tools == PromptTools \cup {"web_search"}

\* the prompt the tool t builds from its arguments
BuildPrompt(t, ct, f) ==
    CASE t = "rti_info" -> rti_info_prompt(f)
      [] t = "divorce_info" -> divorce_info_prompt(f)
      [] t = "consumer_complaint_info" -> consumer_complaint_info_prompt(f)
      [] t = "property_dispute_info" -> property_dispute_info_prompt(f)
      [] t = "workplace_issue_info" -> workplace_issue_info_prompt(f)
      [] t = "family_law_info" -> family_law_info_prompt(f)
      [] t = "cybercrime_info" -> cybercrime_info_prompt(f)
      [] t = "guide_steps" -> guide_steps_prompt(ct)
      [] t = "draft_letter" -> draft_letter_prompt(ct, f)

\* ================================================================
\* Response resolver: the strings of run_llm_or_mock
\* ================================================================
MockMarker == <<"[", "Mock", " response] Prompt:\n\n">>

\* mutant: the mock does not echo the prompt
MockResponseBare(p) == MockMarker

MockResponse(p) == MockMarker \o p

\* mutant: the error string leaves the prompt out
LlmErrorResponseNoPrompt(e, p) == <<"[LLM error] ">> \o e

LlmErrorResponse(e, p) ==
    <<"[LLM error] ">> \o e \o <<"\n\nPrompt:\n">> \o p

\* getattr(resp, "content", str(resp))
ResponseText(resp) == IF resp.hasContent THEN resp.content ELSE resp.repr

\* mutant: the except clause names a narrower class
LlmExceptNarrow == "OSError"

\* the class named by the except clause of run_llm_or_mock
LlmExcept == "Exception"

\* ================================================================
\* web_search: the strings it returns
\* ================================================================
\* max_results passed to DDGS().text
max_results == 5

\* r.get(k) or default: a missing key, None and "" all give the default
GetOr(r, k, default) ==
    IF k \in DOMAIN r /\ r[k] # <<>> THEN r[k] ELSE default

FormatResult(r) ==
    LET t == GetOr(r, "title", <<"No title">>)
        href == GetOr(r, "href", GetOr(r, "url", <<>>))
        body == GetOr(r, "body", <<>>)
    IN  <<"- ">> \o t \o <<"\n  ">> \o href \o <<"\n  ">> \o body

\* "\n\n".join(formatted)
RECURSIVE JoinFormatted(_)
JoinFormatted(rs) ==
    IF rs = <<>> THEN <<>>
    ELSE IF Len(rs) = 1 THEN FormatResult(rs[1])
    ELSE FormatResult(rs[1]) \o <<"\n\n">> \o JoinFormatted(Tail(rs))

NoResultsFound == <<"No results found.">>

\* mutant: only the first result is formatted
SearchResultTextFirstOnly(rs) ==
    IF Len(rs) > 0 THEN FormatResult(rs[1]) ELSE NoResultsFound

SearchResultText(rs) ==
    IF Len(rs) > 0 THEN JoinFormatted(rs) ELSE NoResultsFound

SearchErrorResponse(e) == <<"Search error: ">> \o e

SearchUnavailableResponse(q) ==
    <<"[Search ", "unavailable", "] DuckDuckGo not installed. Query was: ">>
    \o q

\* the class named by the except clause of web_search
SearchExcept == "Exception"

\* ================================================================
\* Tool invocations, dispatched by the FastMCP framework
\* ================================================================

Procs == 1..NumCalls

NoAnswer == [kind |-> "none"]

InitCalls ==
    /\ pc = [i \in Procs |-> "idle"]
    /\ tool = [i \in Procs |-> "none"]
    /\ case_type = [i \in Procs |-> <<>>]
    /\ facts = [i \in Procs |-> <<>>]
    /\ query = [i \in Procs |-> <<>>]
    /\ prompt = [i \in Procs |-> <<>>]
    /\ answer = [i \in Procs |-> NoAnswer]
    /\ result = [i \in Procs |-> <<>>]
    /\ exc = [i \in Procs |-> "None"]
    /\ invokes = [i \in Procs |-> 0]
    /\ searches = [i \in Procs |-> 0]

\* a prompt tool is invoked: it builds its prompt and enters run_llm_or_mock,
\* which calls llm.invoke(prompt) when llm is set and returns the mock otherwise
ToolCall(i, t, ct, f) ==
    /\ pc[i] = "idle"
    /\ t \in PromptTools
    /\ tool' = [tool EXCEPT ![i] = t]
    /\ case_type' = [case_type EXCEPT ![i] = ct]
    /\ facts' = [facts EXCEPT ![i] = f]
    /\ prompt' = [prompt EXCEPT ![i] = BuildPrompt(t, ct, f)]
    /\ IF llm # "None"
       THEN /\ invokes' = [invokes EXCEPT ![i] = @ + 1]
            /\ pc' = [pc EXCEPT ![i] = "invoking"]
            /\ UNCHANGED result
       ELSE /\ result' = [result EXCEPT ![i] = MockResponse(prompt'[i])]
            /\ pc' = [pc EXCEPT ![i] = "returned"]
            /\ UNCHANGED invokes
    /\ UNCHANGED <<query, answer, exc, searches>>
    /\ UNCHANGED <<portVars, configVars>>

\* llm.invoke returns resp; run_llm_or_mock returns its text
LlmRespond(i, resp) ==
    /\ pc[i] = "invoking"
    /\ answer' = [answer EXCEPT ![i] = [kind |-> "response", resp |-> resp]]
    /\ result' = [result EXCEPT ![i] = ResponseText(resp)]
    /\ pc' = [pc EXCEPT ![i] = "returned"]
    /\ UNCHANGED <<tool, case_type, facts, query, prompt, exc, invokes, searches>>
    /\ UNCHANGED <<portVars, configVars>>

\* mutant: a failed invocation switches the model client off for everyone
LlmRaiseDisable(i, cls, e) ==
    /\ pc[i] = "invoking"
    /\ answer' = [answer EXCEPT ![i] = [kind |-> "raised", cls |-> cls, e |-> e]]
    /\ result' = [result EXCEPT ![i] = LlmErrorResponse(e, prompt[i])]
    /\ pc' = [pc EXCEPT ![i] = "returned"]
    /\ llm' = "None"
    /\ UNCHANGED <<tool, case_type, facts, query, prompt, exc, invokes, searches>>
    /\ UNCHANGED <<portVars, GROQ_API_KEY, HAS_DDG, startup>>

\* llm.invoke raises an exception of class cls whose str() is e
LlmRaise(i, cls, e) ==
    /\ pc[i] = "invoking"
    /\ answer' = [answer EXCEPT ![i] = [kind |-> "raised", cls |-> cls, e |-> e]]
    /\ IF IsInstance(cls, LlmExcept)
       THEN /\ result' = [result EXCEPT ![i] = LlmErrorResponse(e, prompt[i])]
            /\ pc' = [pc EXCEPT ![i] = "returned"]
            /\ UNCHANGED exc
       ELSE /\ exc' = [exc EXCEPT ![i] = cls]
            /\ pc' = [pc EXCEPT ![i] = "raised"]
            /\ UNCHANGED result
    /\ UNCHANGED <<tool, case_type, facts, query, prompt, invokes, searches>>
    /\ UNCHANGED <<portVars, configVars>>

\* mutant: the search is attempted whether or not the library was imported
WebSearchCallAlways(i, q) ==
    /\ pc[i] = "idle"
    /\ tool' = [tool EXCEPT ![i] = "web_search"]
    /\ query' = [query EXCEPT ![i] = q]
    /\ searches' = [searches EXCEPT ![i] = @ + 1]
    /\ pc' = [pc EXCEPT ![i] = "searching"]
    /\ UNCHANGED <<case_type, facts, prompt, answer, result, exc, invokes>>
    /\ UNCHANGED <<portVars, configVars>>

\* web_search(q) is invoked: DDGS().text(q, max_results=5) when HAS_DDG,
\* the unavailable message otherwise
WebSearchCall(i, q) ==
    /\ pc[i] = "idle"
    /\ tool' = [tool EXCEPT ![i] = "web_search"]
    /\ query' = [query EXCEPT ![i] = q]
    /\ IF HAS_DDG
       THEN /\ searches' = [searches EXCEPT ![i] = @ + 1]
            /\ pc' = [pc EXCEPT ![i] = "searching"]
            /\ UNCHANGED result
       ELSE /\ result' = [result EXCEPT ![i] = SearchUnavailableResponse(q)]
            /\ pc' = [pc EXCEPT ![i] = "returned"]
            /\ UNCHANGED searches
    /\ UNCHANGED <<case_type, facts, prompt, answer, exc, invokes>>
    /\ UNCHANGED <<portVars, configVars>>

\* the search answers with the list rs; web_search formats and returns it
SearchRespond(i, rs) ==
    /\ pc[i] = "searching"
    /\ Len(rs) <= max_results
    /\ answer' = [answer EXCEPT ![i] = [kind |-> "results", results |-> rs]]
    /\ result' = [result EXCEPT ![i] = SearchResultText(rs)]
    /\ pc' = [pc EXCEPT ![i] = "returned"]
    /\ UNCHANGED <<tool, case_type, facts, query, prompt, exc, invokes, searches>>
    /\ UNCHANGED <<portVars, configVars>>

\* DDGS() or its text() raises an exception of class cls whose str() is e
SearchRaise(i, cls, e) ==
    /\ pc[i] = "searching"
    /\ answer' = [answer EXCEPT ![i] = [kind |-> "raised", cls |-> cls, e |-> e]]
    /\ IF IsInstance(cls, SearchExcept)
       THEN /\ result' = [result EXCEPT ![i] = SearchErrorResponse(e)]
            /\ pc' = [pc EXCEPT ![i] = "returned"]
            /\ UNCHANGED exc
       ELSE /\ exc' = [exc EXCEPT ![i] = cls]
            /\ pc' = [pc EXCEPT ![i] = "raised"]
            /\ UNCHANGED result
    /\ UNCHANGED <<tool, case_type, facts, query, prompt, invokes, searches>>
    /\ UNCHANGED <<portVars, configVars>>

\* ------------------------------------------------ the providers' answers
\* response objects of the model client: with a content attribute (possibly
\* empty), or without one
LlmResponses ==
    { [hasContent |-> TRUE, content |-> <<"Section 6(1) of the RTI Act">>,
       repr |-> <<"content='Section 6(1) of the RTI Act'">>],
      [hasContent |-> TRUE, content |-> <<>>, repr |-> <<"content=''">>],
      [hasContent |-> FALSE, content |-> <<>>, repr |-> <<"<object>">>] }

\* failures of the model client and of the search: class and description
FailureClasses == {"ConnectionError", "APIStatusError", "ValueError"}

FailureTexts == {<<>>, <<"rate limit exceeded">>}

\* result records of the search: dicts with some of title, href, url, body
ResultRecords ==
    { [title |-> <<"RTI Online">>, href |-> <<"https://rtionline.gov.in">>,
       body |-> <<"File RTI">>],
      [title |-> <<>>, url |-> <<"https://consumerhelpline.gov.in">>],
      [body |-> <<"snippet">>] }

ResultLists == SeqsUpTo(ResultRecords, MaxResults)

\* ================================================================
\* Specifications
\* ================================================================
Init == InitPort /\ InitConfig /\ InitCalls

\* the port selector among other processes
NextPort ==
    \/ \E s \in 0..MaxPort, e \in 0..MaxPort : GfpCall(s, e)
    \/ GfpFor
    \/ GfpBind
    \/ GfpWithExit
    \/ \E p \in Ports : OtherBind(p)
    \/ \E p \in Ports : OtherRelease(p)

SpecPort == Init /\ [][NextPort]_vars

\* the arguments a prompt tool takes, its other parameters left empty
ArgsOf(t, T) ==
    IF t \in DomainTools THEN {<<>>} \X T
    ELSE IF t = "guide_steps" THEN T \X {<<>>}
    ELSE T \X T

\* one tool invocation, every tool, every answer of the providers
NextTools ==
    \/ \E t \in PromptTools : \E a \in ArgsOf(t, Texts) : ToolCall(1, t, a[1], a[2])
    \/ \E resp \in LlmResponses : LlmRespond(1, resp)
    \/ \E cls \in FailureClasses, e \in FailureTexts : LlmRaise(1, cls, e)
    \/ \E q \in Texts : WebSearchCall(1, q)
    \/ \E rs \in ResultLists : SearchRespond(1, rs)
    \/ \E cls \in FailureClasses, e \in FailureTexts : SearchRaise(1, cls, e)

InitTools == Init /\ occupied = {}

SpecTools == InitTools /\ [][NextTools]_vars

\* concurrent invocations, interleaved at their outbound calls
ConcTexts == {<<"RTI request">>, <<"want copy of file X">>}

ConcResponses == {r \in LlmResponses : r.hasContent /\ r.content # <<>>}

ConcResultLists == {rs \in SeqsUpTo(ResultRecords, 1) :
                        rs = <<>> \/ "href" \in DOMAIN rs[1]}

ConcFailureTexts == {e \in FailureTexts : e # <<>>}

NextConc ==
    \E i \in Procs :
        \/ \E t \in PromptTools : \E a \in ArgsOf(t, ConcTexts) :
               ToolCall(i, t, a[1], a[2])
        \/ \E resp \in ConcResponses : LlmRespond(i, resp)
        \/ \E e \in ConcFailureTexts : LlmRaise(i, "ConnectionError", e)
        \/ \E q \in ConcTexts : WebSearchCall(i, q)
        \/ \E rs \in ConcResultLists : SearchRespond(i, rs)
        \/ \E e \in ConcFailureTexts : SearchRaise(i, "ConnectionError", e)

InitConc == InitTools /\ GROQ_API_KEY # <<>>

SpecConc == InitConc /\ [][NextConc]_vars

Spec == SpecPort

\* ================================================================
\* Properties of the port selector (checked under SpecPort)
\* ================================================================
GfpFinished == pcPort \in {"returned", "raised"}

GfpRunning == pcPort \in {"for", "bind", "return", "continue"}

\* the ports of range(start_port, end_port) that were unbound when the call began
FreeInRange == {q \in Ports : start_port <= q /\ q < end_port /\ q \notin before}

\* C1: while get_free_port scans, every port of the range below the loop
\* variable was occupied when the call began (the scan is ascending and skips
\* nothing); and whenever a port of the range was unbound at the call, the call
\* ends by returning the lowest such port, never by raising.
C1_LowestFreePort ==
    /\ GfpRunning =>
          /\ start_port <= port
          /\ \A q \in Ports : (start_port <= q /\ q < port) => q \in before
    /\ (GfpFinished /\ FreeInRange # {}) =>
          /\ pcPort = "returned"
          /\ Len(ret) = 1
          /\ ret[1] \in FreeInRange
          /\ \A q \in Ports : (start_port <= q /\ q < ret[1]) => q \in before

\* a call that had to pass over an occupied port, with another free port above
C1_Witness ==
    /\ pcPort = "returned"
    /\ ret[1] > start_port
    /\ \E q \in FreeInRange : q > ret[1]

\* C2 as the spec states it: when no port of the range is free the call raises,
\* and the error names the range (the start and the end port).
C2_ErrorNamesRange ==
    (GfpFinished /\ FreeInRange = {}) =>
        /\ pcPort = "raised"
        /\ Contains(errMsg, <<ToString(start_port)>>)
        /\ Contains(errMsg, <<ToString(end_port)>>)

\* C2 amended: when no port of the range is free (an empty range included) the
\* call returns nothing and raises RuntimeError with the fixed message
\* "No free ports available", which names no port.
C2_ExhaustionError ==
    (GfpFinished /\ FreeInRange = {}) =>
        /\ pcPort = "raised"
        /\ ret = <<>>
        /\ errType = "RuntimeError"
        /\ errMsg = <<"No free ports available">>

\* a range of two or more ports, all of them occupied, was scanned to its end
C2_Witness ==
    /\ pcPort = "raised"
    /\ end_port - start_port >= 2
    /\ port = end_port

\* C3: when get_free_port has finished, by return or by raise, its socket is
\* closed and the set of bound ports is the one the call found; afterwards the
\* returned port is free for any other process to take.
C3_NothingLeftBound ==
    GfpFinished => (sock = {} /\ after = before)

\* the returned port was taken by another process after the call
C3_Witness ==
    /\ pcPort = "returned"
    /\ ret[1] \in occupied
    /\ ret[1] \notin before

\* ================================================================
\* Properties of the tools (checked under SpecTools)
\* ================================================================
IsText(v) == \A k \in 1..Len(v) : v[k] \in STRING

Tokens(v) == {v[k] : k \in 1..Len(v)}

\* C4: every invocation of every tool, whatever the configuration and whatever
\* the providers answer or raise, ends by returning a text; no exception
\* reaches the caller.
C4_AlwaysText ==
    \A i \in Procs :
        /\ pc[i] # "raised"
        /\ exc[i] = "None"
        /\ (answer[i].kind # "none" \/ (tool[i] \in PromptTools /\ llm = "None")
              \/ (tool[i] = "web_search" /\ ~HAS_DDG))
             => (pc[i] = "returned" /\ IsText(result[i]))

\* a search that failed with an exception outside OSError still returned text
C4_Witness ==
    /\ tool[1] = "web_search"
    /\ answer[1].kind = "raised"
    /\ answer[1].cls = "ValueError"
    /\ pc[1] = "returned"

\* C5: when llm.invoke raised, run_llm_or_mock returned a string that holds the
\* failure's description and the whole prompt, did not return the mock
\* response, and had called llm.invoke exactly once.
C5_LlmFailureReturned ==
    \A i \in Procs :
        (tool[i] \in PromptTools /\ answer[i].kind = "raised") =>
            /\ llm # "None"
            /\ pc[i] = "returned"
            /\ Contains(result[i], answer[i].e)
            /\ Contains(result[i], prompt[i])
            /\ Len(prompt[i]) > 0
            /\ ~StartsWith(result[i], <<"[", "Mock">>)
            /\ invokes[i] = 1

\* the model client failed with a description on a draft_letter call
C5_Witness ==
    /\ tool[1] = "draft_letter"
    /\ answer[1].kind = "raised"
    /\ answer[1].e = <<"rate limit exceeded">>
    /\ facts[1] # <<>>

\* C6: with no model client (llm is None) every prompt tool returns the marker,
\* which holds the word "Mock", followed by the whole prompt it built, and
\* llm.invoke is never called.
C6_MockWithoutModel ==
    \A i \in Procs :
        (llm = "None" /\ tool[i] \in PromptTools) =>
            /\ pc[i] = "returned"
            /\ Len(prompt[i]) > 0
            /\ Len(result[i]) > Len(prompt[i])
            /\ SubSeq(result[i], Len(result[i]) - Len(prompt[i]) + 1,
                      Len(result[i])) = prompt[i]
            /\ "Mock" \in Tokens(SubSeq(result[i], 1,
                                        Len(result[i]) - Len(prompt[i])))
            /\ invokes[i] = 0
            /\ answer[i].kind = "none"

\* guide_steps answered in mock mode for a two-token case type
C6_Witness ==
    /\ llm = "None"
    /\ tool[1] = "guide_steps"
    /\ Len(case_type[1]) = 2
    /\ pc[1] = "returned"

\* C7: the prompt a tool builds holds every field the caller gave, unchanged:
\* facts for the seven domain tools, case_type for guide_steps, both for
\* draft_letter; in mock mode the returned result holds them too.
C7_PromptContainsFields ==
    \A i \in Procs :
        /\ tool[i] \in DomainTools \cup {"draft_letter"} =>
              /\ Contains(prompt[i], facts[i])
              /\ llm = "None" => Contains(result[i], facts[i])
        /\ tool[i] \in {"guide_steps", "draft_letter"} =>
              /\ Contains(prompt[i], case_type[i])
              /\ llm = "None" => Contains(result[i], case_type[i])

\* the example of the spec: draft_letter("RTI request", "want copy of file X")
C7_Witness ==
    /\ llm = "None"
    /\ tool[1] = "draft_letter"
    /\ case_type[1] = <<"RTI request">>
    /\ facts[1] = <<"want copy of file X">>
    /\ pc[1] = "returned"

\* C8: when the search answered without failing, web_search returns exactly
\* "No results found." for an empty list, and otherwise one "- " entry per
\* result (at most the five requested), holding each result's snippet, and
\* never the "No results found." literal.
C8_SearchResults ==
    \A i \in Procs :
        (tool[i] = "web_search" /\ answer[i].kind = "results") =>
            /\ HAS_DDG
            /\ pc[i] = "returned"
            /\ LET rs == answer[i].results
               IN  IF rs = <<>>
                   THEN result[i] = <<"No results found.">>
                   ELSE /\ result[i] # <<"No results found.">>
                        /\ CountToken(result[i], "- ") = Len(rs)
                        /\ Len(rs) <= 5
                        /\ \A k \in 1..Len(rs) :
                              "body" \in DOMAIN rs[k] =>
                                  Contains(result[i], rs[k].body)

\* a list of two results was formatted
C8_Witness ==
    /\ tool[1] = "web_search"
    /\ answer[1].kind = "results"
    /\ Len(answer[1].results) = 2
    /\ pc[1] = "returned"

\* the search answered with an empty list
C8_WitnessEmpty ==
    /\ tool[1] = "web_search"
    /\ answer[1].kind = "results"
    /\ answer[1].results = <<>>

\* C9: when duckduckgo_search could not be imported (HAS_DDG is false), web_search
\* returns a string holding "unavailable" and the query unchanged, and makes no
\* search call.
C9_SearchUnavailable ==
    \A i \in Procs :
        (~HAS_DDG /\ tool[i] = "web_search") =>
            /\ pc[i] = "returned"
            /\ "unavailable" \in Tokens(result[i])
            /\ Contains(result[i], query[i])
            /\ Len(result[i]) > Len(query[i])
            /\ searches[i] = 0
            /\ answer[i].kind = "none"

\* web_search was called with a two-token query and no search library
C9_Witness ==
    /\ ~HAS_DDG
    /\ tool[1] = "web_search"
    /\ Len(query[1]) = 2
    /\ pc[1] = "returned"

\* ================================================================
\* Properties of concurrent invocations (checked under SpecConc)
\* ================================================================
\* what the invocation (t, ct, f, q) returns when it runs alone under the
\* configuration cfg and its provider answers ans
SoloResult(t, ct, f, q, cfg, ans) ==
    IF t = "web_search"
    THEN IF ~cfg.ddg THEN SearchUnavailableResponse(q)
         ELSE IF ans.kind = "results" THEN SearchResultText(ans.results)
         ELSE SearchErrorResponse(ans.e)
    ELSE IF cfg.llm = "None" THEN MockResponse(BuildPrompt(t, ct, f))
         ELSE IF ans.kind = "response" THEN ResponseText(ans.resp)
         ELSE LlmErrorResponse(ans.e, BuildPrompt(t, ct, f))

\* the step that ends invocation i's outbound call can be taken
CanComplete(i) ==
    /\ pc[i] = "invoking" =>
          ENABLED (\E resp \in ConcResponses : LlmRespond(i, resp))
    /\ pc[i] = "searching" =>
          ENABLED (\E rs \in ConcResultLists : SearchRespond(i, rs))
    /\ pc[i] = "idle" =>
          ENABLED (\E q \in ConcTexts : WebSearchCall(i, q))

====
